---------------------------- MODULE Spec2Model ----------------------------
(***************************************************************************)
(* A model of mohyung: pack a node_modules tree into one SQLite snapshot,  *)
(* unpack it again, and compare a snapshot with a tree (status).           *)
(*                                                                         *)
(* A directory tree is a set of nodes; a node is a record                  *)
(*   [path, kind, content, readable]                                       *)
(* where path is the sequence of names below the tree root (the root is    *)
(* the node with path << >>), kind is "dir", "file" or "link", content is  *)
(* the file's bytes and readable says whether reading the file succeeds.   *)
(* A tree with no node is a root directory that does not exist.            *)
(***************************************************************************)
EXTENDS Integers, Sequences, FiniteSets, TLC

(***************************************************************************)
(* Bounds of the model.                                                    *)
(***************************************************************************)
\* how many commands (pack, unpack, status) one behaviour runs
MaxCmds == 2

(***************************************************************************)
(* Values.                                                                 *)
(***************************************************************************)
\* A nullable result is a set: {} for null, {v} for the value v.
Null == {}

Some(v) == {v}

Get(o) == CHOOSE v \in o : TRUE

\* File contents of the model and their lengths in bytes (Buffer.length).
Length(content) ==
    CASE content = "hello" -> 5
    []   content = "world" -> 5
    []   content = "{a@1}" -> 5
    []   content = "{}" -> 2
    []   content = "oops" -> 4
    []   content = "old" -> 3
    []   content = "edge" -> 102399
    []   content = "big" -> 102400
    []   content = "huge" -> 204800
    []   OTHER -> 0

\* JSON.parse of a manifest: the parsed object, or Null when parsing throws.
\* A field the object does not have is the empty (falsy) string.
JSONparse(content) ==
    CASE content = "{a@1}" -> Some([name |-> "a", version |-> "1"])
    []   content = "{}" -> Some([name |-> "", version |-> ""])
    []   OTHER -> Null

(***************************************************************************)
(* node:path and node:fs                                                   *)
(***************************************************************************)
join(p, q) == p \o q

IsPrefix(p, q) == Len(p) <= Len(q) /\ SubSeq(q, 1, Len(p)) = p

\* path.relative(baseDir, fullPath) for a fullPath below baseDir
relative(baseDir, fullPath) == SubSeq(fullPath, Len(baseDir) + 1, Len(fullPath))

dirname(p) == SubSeq(p, 1, Len(p) - 1)

existsSync(t, p) == \E n \in t : n.path = p

NodeAt(t, p) == CHOOSE n \in t : n.path = p

\* readdir(dir, {withFileTypes: true}): the entries directly inside dir
readdir(t, dir) == {n \in t : Len(n.path) = Len(dir) + 1 /\ IsPrefix(dir, n.path)}

EntryName(n) == n.path[Len(n.path)]

isDirectory(n) == n.kind = "dir"

isFile(n) == n.kind = "file"

\* readFile / readFileSync succeeds on a readable regular file
CanRead(t, p) == existsSync(t, p) /\ isFile(NodeAt(t, p)) /\ NodeAt(t, p).readable

\* First character of a name, for String.startsWith
StartsWith(name, ch) ==
    CASE ch = "@" -> name \in {"@s"}
    []   ch = "." -> name \in {".bin", ".cache", ".pnpm", ".x"}
    []   OTHER -> FALSE

FileMode == 420
FileMtime == 1000

(***************************************************************************)
(* Scanner                                                                 *)
(***************************************************************************)
parsePackageJsonDefaults(t, pkgJsonPath) ==
    IF ~CanRead(t, pkgJsonPath) \/ JSONparse(NodeAt(t, pkgJsonPath).content) = Null
    THEN Some([name |-> "unknown", version |-> "0.0.0"])
    ELSE LET pkg == JSONparse(NodeAt(t, pkgJsonPath).content)
         IN  Some([name |-> IF Get(pkg).name = "" THEN "unknown" ELSE Get(pkg).name,
                   version |-> IF Get(pkg).version = "" THEN "0.0.0"
                               ELSE Get(pkg).version])

parsePackageJson(t, pkgJsonPath) ==
    IF ~CanRead(t, pkgJsonPath) THEN Null
    ELSE LET pkg == JSONparse(NodeAt(t, pkgJsonPath).content)
         IN  IF pkg = Null THEN Null
             ELSE Some([name |-> IF Get(pkg).name = "" THEN "unknown" ELSE Get(pkg).name,
                        version |-> IF Get(pkg).version = "" THEN "0.0.0"
                                    ELSE Get(pkg).version])

isPnpmStructure(t, nodeModulesPath) == existsSync(t, join(nodeModulesPath, <<".pnpm">>))

RECURSIVE walkDir(_, _, _)
walkDir(t, dir, baseDir) ==
    UNION {
        IF isDirectory(entry) THEN walkDir(t, entry.path, baseDir)
        ELSE IF isFile(entry)
             THEN {[relativePath |-> relative(baseDir, entry.path),
                    absolutePath |-> entry.path,
                    mode |-> FileMode,
                    size |-> Length(entry.content),
                    mtime |-> FileMtime]}
             ELSE {}
        : entry \in readdir(t, dir)}

ScopedDirs(t, fullPath, rel) ==
    {[path |-> scopedEntry.path, relativePath |-> join(rel, <<EntryName(scopedEntry)>>)]
        : scopedEntry \in {e \in readdir(t, fullPath) : isDirectory(e)}}

findPackageDirsSkipsBinOnly(t, nodeModulesPath) ==
    UNION {
        IF ~isDirectory(entry) THEN {}
        ELSE IF EntryName(entry) = ".bin" THEN {}
        ELSE IF StartsWith(EntryName(entry), "@")
             THEN ScopedDirs(t, entry.path, <<EntryName(entry)>>)
             ELSE {[path |-> entry.path, relativePath |-> <<EntryName(entry)>>]}
        : entry \in readdir(t, nodeModulesPath)}

findPackageDirs(t, nodeModulesPath) ==
    UNION {
        IF ~isDirectory(entry) THEN {}
        ELSE IF EntryName(entry) \in {".bin", ".cache", ".pnpm"} THEN {}
        ELSE IF StartsWith(EntryName(entry), "@")
             THEN ScopedDirs(t, entry.path, <<EntryName(entry)>>)
             ELSE {[path |-> entry.path, relativePath |-> <<EntryName(entry)>>]}
        : entry \in readdir(t, nodeModulesPath)}

InnerPackageDirs(t, entry, innerNodeModules) ==
    UNION {
        IF ~isDirectory(innerEntry) THEN {}
        ELSE IF EntryName(innerEntry) = ".bin" THEN {}
        ELSE IF StartsWith(EntryName(innerEntry), "@")
             THEN ScopedDirs(t, innerEntry.path,
                     <<".pnpm", EntryName(entry), "node_modules", EntryName(innerEntry)>>)
             ELSE {[path |-> innerEntry.path,
                    relativePath |->
                        <<".pnpm", EntryName(entry), "node_modules", EntryName(innerEntry)>>]}
        : innerEntry \in readdir(t, innerNodeModules)}

findPnpmPackageDirsAnyEntry(t, nodeModulesPath) ==
    LET pnpmPath == join(nodeModulesPath, <<".pnpm">>)
    IN  UNION {
            IF ~isDirectory(entry) THEN {}
            ELSE IF ~existsSync(t, join(entry.path, <<"node_modules">>)) THEN {}
            ELSE InnerPackageDirs(t, entry, join(entry.path, <<"node_modules">>))
            : entry \in readdir(t, pnpmPath)}

findPnpmPackageDirs(t, nodeModulesPath) ==
    LET pnpmPath == join(nodeModulesPath, <<".pnpm">>)
    IN  UNION {
            IF ~isDirectory(entry) THEN {}
            ELSE IF EntryName(entry) = "node_modules" \/ StartsWith(EntryName(entry), ".")
                 THEN {}
            ELSE IF ~existsSync(t, join(entry.path, <<"node_modules">>)) THEN {}
            ELSE InnerPackageDirs(t, entry, join(entry.path, <<"node_modules">>))
            : entry \in readdir(t, pnpmPath)}

\* readdir of something that is not a directory throws (ENOTDIR), and so does the scan
ScanThrows(t, nodeModulesPath) ==
    \/ ~isDirectory(NodeAt(t, nodeModulesPath))
    \/ /\ isPnpmStructure(t, nodeModulesPath)
       /\ \/ ~isDirectory(NodeAt(t, join(nodeModulesPath, <<".pnpm">>)))
          \/ \E entry \in readdir(t, join(nodeModulesPath, <<".pnpm">>)) :
                /\ isDirectory(entry)
                /\ ~(EntryName(entry) = "node_modules" \/ StartsWith(EntryName(entry), "."))
                /\ existsSync(t, join(entry.path, <<"node_modules">>))
                /\ ~isDirectory(NodeAt(t, join(entry.path, <<"node_modules">>)))

RECURSIVE SumSize(_)
SumSize(files) ==
    IF files = {} THEN 0
    ELSE LET f == CHOOSE x \in files : TRUE
         IN  f.size + SumSize(files \ {f})

\* The packages of the scan; their order in the result is the order readdir
\* lists them, which the file system chooses, so they are kept as a set.
scanPackages(t, packageDirs) ==
    {[name |-> Get(parsePackageJson(t, join(d.path, <<"package.json">>))).name,
      version |-> Get(parsePackageJson(t, join(d.path, <<"package.json">>))).version,
      path |-> d.relativePath,
      files |-> walkDir(t, d.path, d.path)]
        : d \in {x \in packageDirs :
                    parsePackageJson(t, join(x.path, <<"package.json">>)) # Null}}

scanNodeModules(t, nodeModulesPath) ==
    LET usePnpm == isPnpmStructure(t, nodeModulesPath)
        packageDirs == IF usePnpm THEN findPnpmPackageDirs(t, nodeModulesPath)
                       ELSE findPackageDirs(t, nodeModulesPath)
        packages == scanPackages(t, packageDirs)
        allFiles == UNION {p.files : p \in packages}
    IN  [packages |-> packages,
         totalFiles |-> Cardinality(allFiles),
         totalSize |-> SumSize(allFiles)]

(***************************************************************************)
(* Hasher and Compressor                                                   *)
(***************************************************************************)
hashBufferByLength(content) == <<"sha256", Length(content)>>

\* SHA-256 as hex: a digest that names its input.  Two different contents of
\* the model have different digests (no collision among the model's contents).
hashBuffer(content) == <<"sha256", content>>

DefaultLevel == 6

\* gzip: a member that wraps the data; gunzip takes the data out again
compress(content, level) == [gz |-> level, data |-> content]

decompress(compressed) == compressed.data

\* bytes that are no gzip member; gunzipSync throws on them
NotGzip == [gz |-> -1, data |-> "oops"]

gunzipThrows(compressed) == compressed.gz < 0

\* Buffer.length of a gzip member: header and trailer around the data
CompressedLength(compressed) == Length(compressed.data) + 18

(***************************************************************************)
(* Store: the tables of one database file and the statements on them.      *)
(***************************************************************************)
SCHEMA_VERSION == "1"

EmptyTables ==
    [metadata |-> {}, packages |-> {}, blobs |-> {}, files |-> {},
     seqPackages |-> 0, seqFiles |-> 0]

\* INSERT OR REPLACE INTO metadata
setMetadata(tb, key, value) ==
    [tb EXCEPT !.metadata =
        {m \in tb.metadata : m.key # key} \cup {[key |-> key, value |-> value]}]

getMetadata(tb, key) == {m.value : m \in {x \in tb.metadata : x.key = key}}

PackageRow(tb, pkg) ==
    {r \in tb.packages :
        r.name = pkg.name /\ r.version = pkg.version /\ r.path = pkg.path}

insertPackageIdFresh(tb, pkg) == tb.seqPackages + 1

\* INSERT ... ON CONFLICT(name, version, path) DO UPDATE SET name = name RETURNING id
insertPackageId(tb, pkg) ==
    IF PackageRow(tb, pkg) # {} THEN Get(PackageRow(tb, pkg)).id
    ELSE tb.seqPackages + 1

insertPackage(tb, pkg) ==
    IF PackageRow(tb, pkg) # {} THEN tb
    ELSE [tb EXCEPT !.seqPackages = tb.seqPackages + 1,
                    !.packages = tb.packages \cup
                        {[id |-> tb.seqPackages + 1, name |-> pkg.name,
                          version |-> pkg.version, path |-> pkg.path]}]

hasBlobNever(tb, hash) == FALSE

\* SELECT 1 FROM blobs WHERE hash = ?
hasBlob(tb, hash) == \E b \in tb.blobs : b.hash = hash

insertBlobDropped(tb, hash, content, originalSize, compressedSize) == tb

insertBlobReplaces(tb, hash, content, originalSize, compressedSize) ==
    [tb EXCEPT !.blobs = {b \in tb.blobs : b.hash # hash} \cup
            {[hash |-> hash, content |-> content, original_size |-> originalSize,
              compressed_size |-> compressedSize]}]

\* INSERT OR IGNORE INTO blobs
insertBlob(tb, hash, content, originalSize, compressedSize) ==
    IF hasBlob(tb, hash) THEN tb
    ELSE [tb EXCEPT !.blobs = tb.blobs \cup
            {[hash |-> hash, content |-> content, original_size |-> originalSize,
              compressed_size |-> compressedSize]}]

\* SELECT content FROM blobs WHERE hash = ?
getBlob(tb, hash) == {b.content : b \in {x \in tb.blobs : x.hash = hash}}

FileRow(tb, packageId, relativePath) ==
    {f \in tb.files : f.package_id = packageId /\ f.relative_path = relativePath}

insertFileKeepsMtime(tb, packageId, relativePath, blobHash, mode, mtime) ==
    IF FileRow(tb, packageId, relativePath) # {}
    THEN [tb EXCEPT !.files =
            {IF f \in FileRow(tb, packageId, relativePath)
             THEN [f EXCEPT !.blob_hash = blobHash, !.mode = mode]
             ELSE f : f \in tb.files}]
    ELSE [tb EXCEPT !.seqFiles = tb.seqFiles + 1,
                    !.files = tb.files \cup
                        {[id |-> tb.seqFiles + 1, package_id |-> packageId,
                          relative_path |-> relativePath, blob_hash |-> blobHash,
                          mode |-> mode, mtime |-> mtime]}]

\* INSERT INTO files ... ON CONFLICT(package_id, relative_path) DO UPDATE
insertFile(tb, packageId, relativePath, blobHash, mode, mtime) ==
    IF FileRow(tb, packageId, relativePath) # {}
    THEN [tb EXCEPT !.files =
            {IF f \in FileRow(tb, packageId, relativePath)
             THEN [f EXCEPT !.blob_hash = blobHash, !.mode = mode, !.mtime = mtime]
             ELSE f : f \in tb.files}]
    ELSE [tb EXCEPT !.seqFiles = tb.seqFiles + 1,
                    !.files = tb.files \cup
                        {[id |-> tb.seqFiles + 1, package_id |-> packageId,
                          relative_path |-> relativePath, blob_hash |-> blobHash,
                          mode |-> mode, mtime |-> mtime]}]

getAllFilesByName(tb) ==
    {[id |-> f.id, packageId |-> f.package_id, relativePath |-> f.relative_path,
      blobHash |-> f.blob_hash, mode |-> f.mode, mtime |-> f.mtime,
      packagePath |-> <<p.name>>]
        : <<f, p>> \in {x \in tb.files \X tb.packages : x[1].package_id = x[2].id}}

\* SELECT f.*, p.path AS package_path FROM files f JOIN packages p ON f.package_id = p.id
getAllFiles(tb) ==
    {[id |-> f.id, packageId |-> f.package_id, relativePath |-> f.relative_path,
      blobHash |-> f.blob_hash, mode |-> f.mode, mtime |-> f.mtime,
      packagePath |-> p.path]
        : <<f, p>> \in {x \in tb.files \X tb.packages : x[1].package_id = x[2].id}}

getTotalFileCount(tb) == Cardinality(tb.files)

\* new Store(dbPath): better-sqlite3 creates the file when it is absent, WAL
\* mode makes the -wal and -shm sidecars, initSchema writes schema_version.
StoreOpen(d) ==
    [exists |-> TRUE,
     tables |-> setMetadata(IF d.exists THEN d.tables ELSE EmptyTables,
                            "schema_version", SCHEMA_VERSION),
     wal |-> TRUE, shm |-> TRUE]

\* close(): closing the only connection checkpoints and removes the sidecars
StoreClose(d) == [d EXCEPT !.wal = FALSE, !.shm = FALSE]

TxnRollbackKeepsRows(d, saved) == d

\* db.transaction(fn)() when fn throws: ROLLBACK to the tables at BEGIN
TxnRollback(d, saved) == [d EXCEPT !.tables = saved]

(***************************************************************************)
(* State                                                                   *)
(***************************************************************************)
VARIABLES
    tree,    \* the node_modules directory (pack's source, status's tree)
    out,     \* unpack's output directory
    disk,    \* the database path: [exists, tables, wal, shm]
    store,   \* the Store handle of the running command: "none", "open", "closed"
    saved,   \* the tables at BEGIN of the open transaction
    pc,      \* where the running command is; "idle" between commands
    pk,      \* pack's locals
    ux,      \* unpack's and the Extractor's locals
    sr,      \* status's locals
    res,     \* what the last command returned or threw
    cmds,    \* commands started so far
    env,     \* whether the environment changed something since the last command
    packed,  \* [tree: the tree as the last pack scanned it,
             \*  done: that pack committed and its snapshot is still at the database path,
             \*  prev: how the command before that pack ended when it was a pack too]
    call,    \* the last call a caller made on the Store: its arguments and its outcome
    other,   \* a second command that runs on the same database path at the same time
    found    \* the last call of one of the scanner's enumerations and what it yielded

vars ==
    <<tree, out, disk, store, saved, pc, pk, ux, sr, res, cmds, env, packed, call, other,
      found>>

Dir(p) == [path |-> p, kind |-> "dir", content |-> "", readable |-> TRUE]

File(p, c) == [path |-> p, kind |-> "file", content |-> c, readable |-> TRUE]

Unreadable(p, c) == [path |-> p, kind |-> "file", content |-> c, readable |-> FALSE]

\* The files of a tree as (path, bytes) pairs
FilesOf(t) == {<<n.path, n.content>> : n \in {x \in t : isFile(x)}}

(***************************************************************************)
(* The trees, output directories and database files a behaviour starts in. *)
(***************************************************************************)
PkgAFull ==
    {Dir(<<"a">>), File(<<"a", "package.json">>, "{a@1}"), File(<<"a", "i.js">>, "hello")}

PkgA ==
    {{},
     PkgAFull,
     {Dir(<<"a">>), File(<<"a", "package.json">>, "{a@1}"),
      Unreadable(<<"a", "i.js">>, "hello")},
     {Dir(<<"a">>), File(<<"a", "i.js">>, "hello")}}

PkgBFull ==
    {Dir(<<"b">>), File(<<"b", "package.json">>, "{a@1}"), File(<<"b", "i.js">>, "hello")}

PkgB ==
    {{},
     PkgBFull,
     {Dir(<<"b">>), File(<<"b", "package.json">>, "oops"), File(<<"b", "i.js">>, "hello")},
     {Dir(<<"b">>), File(<<"b", "package.json">>, "{}"), File(<<"b", "i.js">>, "world")}}

DotBin == {Dir(<<".bin">>), File(<<".bin", "i.js">>, "hello")}

PnpmF == <<".pnpm", "f@1", "node_modules", "f">>

Pnpm ==
    {Dir(SubSeq(PnpmF, 1, i)) : i \in 1..4}
        \cup {File(PnpmF \o <<"package.json">>, "{a@1}"), File(PnpmF \o <<"i.js">>, "world")}

\* a regular file that has the farm's name
PnpmFile == {File(<<".pnpm">>, "oops")}

\* what else the root holds: nothing, a .bin directory, a .pnpm farm, or a
\* regular file named .pnpm
Extras == {{}, DotBin, Pnpm, PnpmFile}

\* no root; a root with any two package directories; a root with whole
\* packages and one of the extras
Trees ==
    {{}} \cup {{Dir(<< >>)} \cup a \cup b : a \in PkgA, b \in PkgB}
         \cup {{Dir(<< >>)} \cup a \cup b \cup x
                    : a \in {{}, PkgAFull}, b \in {{}, PkgBFull}, x \in Extras}

OutDirs == {{}, {Dir(<< >>), File(<<"keep.txt">>, "old")}}

\* A snapshot file that is already at the database path: any SQLite file of
\* this schema may be.  Its second file row names a blob the file does not hold.
OldTables ==
    [metadata |-> {[key |-> "schema_version", value |-> SCHEMA_VERSION]},
     packages |-> {[id |-> 1, name |-> "old", version |-> "0.1", path |-> <<"old">>]},
     blobs |-> {[hash |-> hashBuffer("old"), content |-> compress("old", DefaultLevel),
                 original_size |-> Length("old"),
                 compressed_size |-> CompressedLength(compress("old", DefaultLevel))]},
     files |-> {[id |-> 1, package_id |-> 1, relative_path |-> <<"z.js">>,
                 blob_hash |-> hashBuffer("old"), mode |-> FileMode, mtime |-> FileMtime],
                [id |-> 2, package_id |-> 1, relative_path |-> <<"gone.js">>,
                 blob_hash |-> hashBuffer("world"), mode |-> FileMode, mtime |-> FileMtime]},
     seqPackages |-> 1, seqFiles |-> 2]

\* Nothing at the path; an empty file, which SQLite opens as a database
\* without tables; sidecars left beside a file that is gone; a snapshot whose
\* sidecars are still there (the first command that closes a Store on it
\* leaves the snapshot without them).
Disks ==
    {[exists |-> FALSE, tables |-> EmptyTables, wal |-> FALSE, shm |-> FALSE],
     [exists |-> TRUE, tables |-> EmptyTables, wal |-> FALSE, shm |-> FALSE],
     [exists |-> FALSE, tables |-> EmptyTables, wal |-> TRUE, shm |-> TRUE],
     [exists |-> TRUE, tables |-> OldTables, wal |-> TRUE, shm |-> TRUE]}

EmptyStatus == [onlyInDb |-> << >>, onlyInFs |-> << >>, modified |-> << >>, unchanged |-> 0]

NoResult ==
    [cmd |-> "none", error |-> "", deduplicated |-> 0, totalFiles |-> 0, totalSize |-> 0,
     status |-> EmptyStatus, opened |-> FALSE]

PkInit ==
    [pkgsLeft |-> {}, packageId |-> 0, filesLeft |-> {}, file |-> {}, hash |-> << >>,
     deduplicatedCount |-> 0, processedFiles |-> 0, hadDb |-> FALSE]

UxInit ==
    [files |-> {}, totalFiles |-> 0, totalSize |-> 0, blobCache |-> {}, written |-> {},
     skipped |-> {}, out0 |-> {}, force |-> FALSE]

SrInit == [files |-> {}, rows |-> 0, result |-> EmptyStatus]

\* no pack has run
NotPacked == [tree |-> {}, done |-> FALSE, prev |-> "none"]

\* no call made on the Store yet
NoCall ==
    [op |-> "none", args |-> [none |-> TRUE], before |-> EmptyTables, returned |-> 0,
     threw |-> FALSE, lastFiles |-> {}]

\* no second command running
NoOther == [pc |-> "none", store |-> "none", live |-> FALSE, file |-> EmptyTables,
            files |-> {}, seen |-> {}, error |-> ""]

\* no enumeration called
NoFound == [fn |-> "none", dirs |-> {}, threw |-> FALSE]

Init ==
    /\ tree \in Trees
    /\ out \in OutDirs
    /\ disk \in Disks
    /\ store = "none"
    /\ saved = EmptyTables
    /\ pc = "idle"
    /\ pk = PkInit
    /\ ux = UxInit
    /\ sr = SrInit
    /\ res = NoResult
    /\ cmds = 0
    /\ env = FALSE
    /\ packed = NotPacked
    /\ call = NoCall
    /\ other = NoOther
    /\ found = NoFound

Failed(cmd, error, opened) == [NoResult EXCEPT !.cmd = cmd, !.error = error, !.opened = opened]

(***************************************************************************)
(* pack                                                                    *)
(***************************************************************************)
cleanupDbFilesSkipped(d) == d

cleanupDbFilesSidecarsOnly(d) == [d EXCEPT !.wal = FALSE, !.shm = FALSE]

\* cleanupDbFiles: remove the database file and, inside the same branch, its
\* -wal and -shm sidecars
cleanupDbFiles(d) ==
    IF d.exists
    THEN [exists |-> FALSE, tables |-> EmptyTables, wal |-> FALSE, shm |-> FALSE]
    ELSE d

\* how the last command ended when it was a pack: "ok", "failed" inside the
\* transaction, "unscanned" (it failed before it touched the output), or "none"
prevPack(r) ==
    IF r.cmd # "pack" THEN "none"
    ELSE IF r.error = "" THEN "ok"
    ELSE IF r.opened THEN "failed"
    ELSE "unscanned"

PackScanCleansFirst ==
    /\ pc = "idle"
    /\ cmds < MaxCmds
    /\ cmds' = cmds + 1
    /\ store' = "none"
    /\ disk' = cleanupDbFiles(disk)
    /\ IF ~existsSync(tree, << >>)
       THEN /\ res' = Failed("pack", "SourceNotFound", FALSE)
            /\ pk' = PkInit
            /\ UNCHANGED <<pc, packed>>
       ELSE IF ScanThrows(tree, << >>)
       THEN /\ res' = Failed("pack", "IoError", FALSE)
            /\ pk' = PkInit
            /\ UNCHANGED <<pc, packed>>
       ELSE /\ pc' = "pack_cleanup"
            /\ pk' = [PkInit EXCEPT !.pkgsLeft = scanNodeModules(tree, << >>).packages]
            /\ packed' = [tree |-> tree, done |-> FALSE, prev |-> prevPack(res)]
            /\ res' = NoResult
    /\ ux' = UxInit
    /\ sr' = SrInit
    /\ env' = FALSE
    /\ UNCHANGED <<tree, out, saved>>
    /\ UNCHANGED <<call, other, found>>

\* pack, from the source check to the end of the scan.  (The lockfile hash of
\* includeLockfile is one more metadata row and is left out.)
PackScan ==
    /\ pc = "idle"
    /\ cmds < MaxCmds
    /\ cmds' = cmds + 1
    /\ store' = "none"
    /\ IF ~existsSync(tree, << >>)
       THEN /\ res' = Failed("pack", "SourceNotFound", FALSE)
            /\ pk' = PkInit
            /\ UNCHANGED <<pc, packed>>
       ELSE IF ScanThrows(tree, << >>)
       THEN /\ res' = Failed("pack", "IoError", FALSE)
            /\ pk' = PkInit
            /\ UNCHANGED <<pc, packed>>
       ELSE /\ pc' = "pack_cleanup"
            /\ pk' = [PkInit EXCEPT !.pkgsLeft = scanNodeModules(tree, << >>).packages]
            /\ packed' = [tree |-> tree, done |-> FALSE, prev |-> prevPack(res)]
            /\ res' = NoResult
    /\ ux' = UxInit
    /\ sr' = SrInit
    /\ env' = FALSE
    /\ UNCHANGED <<tree, out, disk, saved>>
    /\ UNCHANGED <<call, other, found>>

\* unlink of the database file under a second connection that has it open:
\* that connection keeps the file it opened, which is no longer at the path
detach(o, d) ==
    IF o.live /\ d.exists THEN [o EXCEPT !.live = FALSE, !.file = d.tables] ELSE o

PackCleanup ==
    /\ pc = "pack_cleanup"
    /\ disk' = cleanupDbFiles(disk)
    /\ pk' = [pk EXCEPT !.hadDb = disk.exists]
    /\ pc' = "pack_open"
    /\ other' = detach(other, disk)
    /\ UNCHANGED <<tree, out, store, saved, ux, sr, res, cmds, env, packed>>
    /\ UNCHANGED <<call, found>>

\* new Store(dbPath), the metadata of the run, and BEGIN of the transaction
PackOpen ==
    /\ pc = "pack_open"
    /\ LET opened == StoreOpen(disk)
           seeded == setMetadata(setMetadata(setMetadata(opened.tables,
                        "created_at", ToString(cmds)), "node_version", "v20"), "source_path", "nm")
       IN  /\ disk' = [opened EXCEPT !.tables = seeded]
           /\ saved' = seeded
    /\ store' = "open"
    /\ pc' = "pack_package"
    /\ UNCHANGED <<tree, out, pk, ux, sr, res, cmds, env, packed>>
    /\ UNCHANGED <<call, other, found>>

\* for (const pkg of scanResult.packages): insertPackage
PackPackage ==
    /\ pc = "pack_package"
    /\ pk.pkgsLeft # {}
    /\ \E pkg \in pk.pkgsLeft :
        /\ disk' = [disk EXCEPT !.tables = insertPackage(disk.tables, pkg)]
        /\ pk' = [pk EXCEPT !.pkgsLeft = pk.pkgsLeft \ {pkg},
                            !.packageId = insertPackageId(disk.tables, pkg),
                            !.filesLeft = pkg.files]
        /\ pc' = IF pkg.files = {} THEN "pack_package" ELSE "pack_file"
    /\ UNCHANGED <<tree, out, store, saved, ux, sr, res, cmds, env, packed>>
    /\ UNCHANGED <<call, other, found>>

\* readFileSync, hashBuffer, hasBlob, insertBlob or deduplicatedCount++.
\* A read that fails throws out of the transaction: ROLLBACK, and pack
\* rejects without reaching store.close().
PackBlob ==
    /\ pc = "pack_file"
    /\ pk.filesLeft # {}
    /\ \E file \in pk.filesLeft :
        IF ~CanRead(tree, file.absolutePath)
        THEN /\ disk' = TxnRollback(disk, saved)
             /\ res' = [Failed("pack", "IoError", TRUE) EXCEPT
                            !.totalFiles = pk.processedFiles + 1]
             /\ pc' = "idle"
             /\ pk' = PkInit
        ELSE LET content == NodeAt(tree, file.absolutePath).content
                 hash == hashBuffer(content)
                 compressed == compress(content, DefaultLevel)
             IN  /\ IF ~hasBlob(disk.tables, hash)
                    THEN /\ disk' = [disk EXCEPT !.tables =
                                insertBlob(disk.tables, hash, compressed, Length(content),
                                           CompressedLength(compressed))]
                         /\ pk' = [pk EXCEPT !.hash = hash, !.file = {file},
                                             !.filesLeft = pk.filesLeft \ {file},
                                             !.processedFiles = pk.processedFiles + 1]
                    ELSE /\ disk' = disk
                         /\ pk' = [pk EXCEPT !.hash = hash, !.file = {file},
                                             !.filesLeft = pk.filesLeft \ {file},
                                             !.processedFiles = pk.processedFiles + 1,
                                             !.deduplicatedCount = pk.deduplicatedCount + 1]
                 /\ pc' = "pack_insert"
                 /\ UNCHANGED res
    /\ UNCHANGED <<tree, out, store, saved, ux, sr, cmds, env, packed>>
    /\ UNCHANGED <<call, other, found>>

\* insertFile.run(packageId, file.relativePath, hash, file.mode, file.mtime)
PackFile ==
    /\ pc = "pack_insert"
    /\ LET file == Get(pk.file)
       IN  disk' = [disk EXCEPT !.tables =
                insertFile(disk.tables, pk.packageId, file.relativePath, pk.hash,
                           file.mode, file.mtime)]
    /\ pk' = [pk EXCEPT !.file = {}]
    /\ pc' = IF pk.filesLeft = {} THEN "pack_package" ELSE "pack_file"
    /\ UNCHANGED <<tree, out, store, saved, ux, sr, res, cmds, env, packed>>
    /\ UNCHANGED <<call, other, found>>

\* packFiles returns: COMMIT
PackCommit ==
    /\ pc = "pack_package"
    /\ pk.pkgsLeft = {}
    /\ pc' = "pack_close"
    /\ UNCHANGED <<tree, out, disk, store, saved, pk, ux, sr, res, cmds, env, packed>>
    /\ UNCHANGED <<call, other, found>>

\* store.close() and the summary
\* (the sidecars go when the last connection to the file closes)
PackClose ==
    /\ pc = "pack_close"
    /\ disk' = IF other.store = "open" /\ other.live THEN disk ELSE StoreClose(disk)
    /\ store' = "closed"
    /\ res' = [NoResult EXCEPT !.cmd = "pack", !.opened = TRUE,
                               !.deduplicated = pk.deduplicatedCount,
                               !.totalFiles = pk.processedFiles]
    /\ pc' = "idle"
    /\ pk' = PkInit
    /\ packed' = [packed EXCEPT !.done = TRUE]
    /\ UNCHANGED <<tree, out, saved, ux, sr, cmds, env>>
    /\ UNCHANGED <<call, other, found>>

(***************************************************************************)
(* unpack and the Extractor                                                *)
(***************************************************************************)
\* rm(outputPath, {recursive: true, force: true})
rmOutput(o) == {}

unpackOutputRemovesFirst(o, dbExists, force) ==
    IF existsSync(o, << >>) /\ force THEN rmOutput(o) ELSE o

\* the output directory after unpack's checks: as it was when a check fails,
\* removed when it exists and force is set
unpackOutput(o, dbExists, force) ==
    IF ~dbExists THEN o
    ELSE IF existsSync(o, << >>) /\ ~force THEN o
    ELSE IF existsSync(o, << >>) THEN rmOutput(o)
    ELSE o

\* the error unpack's checks throw ("": none)
unpackError(o, dbExists, force) ==
    IF ~dbExists THEN "DatabaseNotFound"
    ELSE IF existsSync(o, << >>) /\ ~force THEN "OutputExists"
    ELSE ""

UnpackStart ==
    /\ pc = "idle"
    /\ cmds < MaxCmds
    /\ cmds' = cmds + 1
    /\ store' = "none"
    /\ \E force \in BOOLEAN :
        /\ ux' = [UxInit EXCEPT !.out0 = out, !.force = force]
        /\ out' = unpackOutput(out, disk.exists, force)
        /\ IF unpackError(out, disk.exists, force) # ""
           THEN /\ res' = Failed("unpack", unpackError(out, disk.exists, force), FALSE)
                /\ pc' = "idle"
           ELSE /\ res' = NoResult
                /\ pc' = "unpack_open"
    /\ pk' = PkInit
    /\ sr' = SrInit
    /\ env' = FALSE
    /\ UNCHANGED <<tree, disk, saved, packed>>
    /\ UNCHANGED <<call, other, found>>

\* new Store(dbPath), the database info, and extractFiles up to getAllFiles()
UnpackOpen ==
    /\ pc = "unpack_open"
    /\ disk' = StoreOpen(disk)
    /\ store' = "open"
    /\ ux' = [ux EXCEPT !.files = getAllFiles(StoreOpen(disk).tables),
                        !.totalFiles = Cardinality(getAllFiles(StoreOpen(disk).tables))]
    /\ pc' = "extract"
    /\ UNCHANGED <<tree, out, saved, pk, sr, res, cmds, env, packed>>
    /\ UNCHANGED <<call, other, found>>

\* mkdir(dirname(fullPath), {recursive: true})
mkdirp(o, dir) == o \cup {Dir(SubSeq(dir, 1, i)) : i \in 0..Len(dir)}

\* writeFile(fullPath, content)
writeFile(o, fullPath, content) ==
    {n \in o : n.path # fullPath} \cup {File(fullPath, content)}

CacheLimit == 102400

CacheGetAnyHash(cache, blobHash) == {c.content : c \in cache}

CacheGet(cache, blobHash) == {c.content : c \in {x \in cache : x.hash = blobHash}}

\* getContent: the cached bytes, or the blob decompressed (Null: no blob)
getContent(cache, tb, blobHash) ==
    IF CacheGet(cache, blobHash) # {} THEN CacheGet(cache, blobHash)
    ELSE IF getBlob(tb, blobHash) = Null THEN Null
    ELSE Some(decompress(Get(getBlob(tb, blobHash))))

\* getContent throws: the blob is fetched (no cache hit) and does not decompress
getContentThrows(cache, tb, blobHash) ==
    /\ CacheGet(cache, blobHash) = {}
    /\ getBlob(tb, blobHash) # Null
    /\ gunzipThrows(Get(getBlob(tb, blobHash)))

cacheAfterAtLimit(cache, tb, blobHash) ==
    IF CacheGet(cache, blobHash) # {} THEN cache
    ELSE IF getBlob(tb, blobHash) = Null THEN cache
    ELSE LET content == decompress(Get(getBlob(tb, blobHash)))
         IN  IF Length(content) <= CacheLimit
             THEN cache \cup {[hash |-> blobHash, content |-> content]}
             ELSE cache

\* the cache after getContent
cacheAfter(cache, tb, blobHash) ==
    IF CacheGet(cache, blobHash) # {} THEN cache
    ELSE IF getBlob(tb, blobHash) = Null THEN cache
    ELSE LET content == decompress(Get(getBlob(tb, blobHash)))
         IN  IF Length(content) < CacheLimit
             THEN cache \cup {[hash |-> blobHash, content |-> content]}
             ELSE cache

\* totalSize after one file of the loop
sizeAfterCountsSkipped(totalSize, content) ==
    IF content = Null THEN totalSize + 1 ELSE totalSize + Length(Get(content))

sizeAfter(totalSize, content) ==
    IF content = Null THEN totalSize ELSE totalSize + Length(Get(content))

\* one turn of iterateFiles.  (chmod of the written file is left out: a node
\* of the model carries no mode, and a failing chmod is ignored by the code.)
\* A blob that does not decompress throws out of extractFiles and out of
\* unpack, which rejects without reaching store.close().
ExtractFile ==
    /\ pc = "extract"
    /\ ux.files # {}
    /\ \E file \in ux.files :
        LET fullPath == join(file.packagePath, file.relativePath)
            content == getContent(ux.blobCache, disk.tables, file.blobHash)
        IN  IF getContentThrows(ux.blobCache, disk.tables, file.blobHash)
            THEN /\ out' = mkdirp(out, dirname(fullPath))
                 /\ ux' = [ux EXCEPT !.files = ux.files \ {file}]
                 /\ res' = Failed("unpack", "DecompressError", TRUE)
                 /\ pc' = "idle"
            ELSE /\ out' = IF content = Null THEN mkdirp(out, dirname(fullPath))
                           ELSE writeFile(mkdirp(out, dirname(fullPath)), fullPath,
                                          Get(content))
                 /\ ux' = [ux EXCEPT
                        !.files = ux.files \ {file},
                        !.blobCache = cacheAfter(ux.blobCache, disk.tables, file.blobHash),
                        !.totalSize = sizeAfter(ux.totalSize, content),
                        !.written = IF content = Null THEN ux.written
                                    ELSE ux.written \cup {file},
                        !.skipped = IF content = Null THEN ux.skipped \cup {file}
                                    ELSE ux.skipped]
                 /\ UNCHANGED <<pc, res>>
    /\ UNCHANGED <<tree, disk, store, saved, pk, sr, cmds, env, packed>>
    /\ UNCHANGED <<call, other, found>>

\* extractFiles returns, store.close()
UnpackClose ==
    /\ pc = "extract"
    /\ ux.files = {}
    /\ disk' = StoreClose(disk)
    /\ store' = "closed"
    /\ res' = [NoResult EXCEPT !.cmd = "unpack", !.opened = TRUE,
                               !.totalFiles = ux.totalFiles, !.totalSize = ux.totalSize]
    /\ pc' = "idle"
    /\ UNCHANGED <<tree, out, saved, pk, ux, sr, cmds, env, packed>>
    /\ UNCHANGED <<call, other, found>>

(***************************************************************************)
(* status                                                                  *)
(***************************************************************************)
statusCheckTreeFirst(dbExists, treeExists) ==
    IF ~treeExists THEN "TreeAbsent"
    ELSE IF ~dbExists THEN "DatabaseNotFound"
    ELSE ""

\* status's checks, in order: the database file, then the tree
statusCheck(dbExists, treeExists) ==
    IF ~dbExists THEN "DatabaseNotFound"
    ELSE IF ~treeExists THEN "TreeAbsent"
    ELSE ""

StatusStart ==
    /\ pc = "idle"
    /\ cmds < MaxCmds
    /\ cmds' = cmds + 1
    /\ store' = "none"
    /\ sr' = SrInit
    /\ LET check == statusCheck(disk.exists, existsSync(tree, << >>))
       IN  IF check = "DatabaseNotFound"
           THEN /\ res' = Failed("status", "DatabaseNotFound", FALSE)
                /\ pc' = "idle"
           ELSE IF check = "TreeAbsent"
           THEN /\ res' = [NoResult EXCEPT !.cmd = "status", !.status = EmptyStatus]
                /\ pc' = "idle"
           ELSE /\ res' = NoResult
                /\ pc' = "status_open"
    /\ pk' = PkInit
    /\ ux' = UxInit
    /\ env' = FALSE
    /\ UNCHANGED <<tree, out, disk, saved, packed>>
    /\ UNCHANGED <<call, other, found>>

\* new Store(dbPath) and getAllFiles()
StatusOpen ==
    /\ pc = "status_open"
    /\ disk' = StoreOpen(disk)
    /\ store' = "open"
    /\ sr' = [sr EXCEPT !.files = getAllFiles(StoreOpen(disk).tables),
                        !.rows = getTotalFileCount(StoreOpen(disk).tables)]
    /\ pc' = "status_loop"
    /\ UNCHANGED <<tree, out, saved, pk, ux, res, cmds, env, packed>>
    /\ UNCHANGED <<call, other, found>>

classifyMissingIsModified(t, file) ==
    LET fullPath == join(file.packagePath, file.relativePath)
    IN  IF ~CanRead(t, fullPath) THEN "modified"
        ELSE IF hashBuffer(NodeAt(t, fullPath).content) # file.blobHash THEN "modified"
        ELSE "unchanged"

\* the class of one file row: existsSync, readFile, hashBuffer, compare
classify(t, file) ==
    LET fullPath == join(file.packagePath, file.relativePath)
    IN  IF ~existsSync(t, fullPath) THEN "onlyInDb"
        ELSE IF ~CanRead(t, fullPath) THEN "modified"
        ELSE IF hashBuffer(NodeAt(t, fullPath).content) # file.blobHash THEN "modified"
        ELSE "unchanged"

\* one turn of status's loop
StatusFile ==
    /\ pc = "status_loop"
    /\ sr.files # {}
    /\ \E file \in sr.files :
        LET relativePath == join(file.packagePath, file.relativePath)
            class == classify(tree, file)
            r == sr.result
        IN  sr' = [sr EXCEPT
                    !.files = sr.files \ {file},
                    !.result =
                        IF class = "onlyInDb"
                        THEN [r EXCEPT !.onlyInDb = Append(r.onlyInDb, relativePath)]
                        ELSE IF class = "modified"
                        THEN [r EXCEPT !.modified = Append(r.modified, relativePath)]
                        ELSE [r EXCEPT !.unchanged = r.unchanged + 1]]
    /\ UNCHANGED <<tree, out, disk, store, saved, pc, pk, ux, res, cmds, env, packed>>
    /\ UNCHANGED <<call, other, found>>

\* store.close() and the result
StatusClose ==
    /\ pc = "status_loop"
    /\ sr.files = {}
    /\ disk' = StoreClose(disk)
    /\ store' = "closed"
    /\ res' = [NoResult EXCEPT !.cmd = "status", !.opened = TRUE, !.status = sr.result]
    /\ pc' = "idle"
    /\ UNCHANGED <<tree, out, saved, pk, ux, sr, cmds, env, packed>>
    /\ UNCHANGED <<call, other, found>>

(***************************************************************************)
(* The environment: what a user does to the tree and the database file     *)
(* between two commands.                                                   *)
(***************************************************************************)
OtherContent(c) == IF c = "world" THEN "hello" ELSE "world"

\* (a package.json that does not parse is among the trees a behaviour starts in)
EnvWrite ==
    /\ pc = "idle" /\ cmds > 0 /\ cmds < MaxCmds /\ ~env
    /\ \E n \in {x \in tree : isFile(x) /\ x.readable /\ EntryName(x) # "package.json"} :
        tree' = (tree \ {n}) \cup {File(n.path, OtherContent(n.content))}
    /\ env' = TRUE
    /\ UNCHANGED <<out, disk, store, saved, pc, pk, ux, sr, res, cmds, packed>>
    /\ UNCHANGED <<call, other, found>>

\* (a package directory without package.json is among the trees a behaviour
\* starts in)
EnvUnlink ==
    /\ pc = "idle" /\ cmds > 0 /\ cmds < MaxCmds /\ ~env
    /\ \E n \in {x \in tree : isFile(x) /\ EntryName(x) # "package.json"} :
        tree' = tree \ {n}
    /\ env' = TRUE
    /\ UNCHANGED <<out, disk, store, saved, pc, pk, ux, sr, res, cmds, packed>>
    /\ UNCHANGED <<call, other, found>>

EnvChmod ==
    /\ pc = "idle" /\ cmds > 0 /\ cmds < MaxCmds /\ ~env
    /\ \E n \in {x \in tree : isFile(x) /\ x.readable} :
        tree' = (tree \ {n}) \cup {Unreadable(n.path, n.content)}
    /\ env' = TRUE
    /\ UNCHANGED <<out, disk, store, saved, pc, pk, ux, sr, res, cmds, packed>>
    /\ UNCHANGED <<call, other, found>>

\* a file that could not be read can be read again
EnvChmodBack ==
    /\ pc = "idle" /\ cmds > 0 /\ cmds < MaxCmds /\ ~env
    /\ \E n \in {x \in tree : isFile(x) /\ ~x.readable} :
        tree' = (tree \ {n}) \cup {File(n.path, n.content)}
    /\ env' = TRUE
    /\ UNCHANGED <<out, disk, store, saved, pc, pk, ux, sr, res, cmds, packed>>
    /\ UNCHANGED <<call, other, found>>

EnvRmTree ==
    /\ pc = "idle" /\ cmds > 0 /\ cmds < MaxCmds /\ ~env
    /\ tree # {}
    /\ tree' = {}
    /\ env' = TRUE
    /\ UNCHANGED <<out, disk, store, saved, pc, pk, ux, sr, res, cmds, packed>>
    /\ UNCHANGED <<call, other, found>>

EnvRmDb ==
    /\ pc = "idle" /\ cmds > 0 /\ cmds < MaxCmds /\ ~env
    /\ disk.exists
    /\ disk' = [disk EXCEPT !.exists = FALSE, !.tables = EmptyTables]
    /\ packed' = [packed EXCEPT !.done = FALSE]
    /\ env' = TRUE
    /\ UNCHANGED <<tree, out, store, saved, pc, pk, ux, sr, res, cmds>>
    /\ UNCHANGED <<call, other, found>>

Next ==
    \/ PackScan \/ PackCleanup \/ PackOpen \/ PackPackage \/ PackBlob \/ PackFile
    \/ PackCommit \/ PackClose
    \/ UnpackStart \/ UnpackOpen \/ ExtractFile \/ UnpackClose
    \/ StatusStart \/ StatusOpen \/ StatusFile \/ StatusClose
    \/ EnvWrite \/ EnvUnlink \/ EnvChmod \/ EnvChmodBack \/ EnvRmTree \/ EnvRmDb

Spec == Init /\ [][Next]_vars

(***************************************************************************)
(* The Store's statements, called one at a time on one open Store in any   *)
(* order and with any arguments, as a caller of the class may.             *)
(***************************************************************************)
ApiPackages ==
    {[name |-> "a", version |-> "1", path |-> <<"a">>],
     [name |-> "a", version |-> "1", path |-> <<"b">>],
     [name |-> "a", version |-> "2", path |-> <<"a">>]}

\* BlobInfo values; two of them carry the same digest with different content
\* and sizes
ApiBlobs ==
    {[hash |-> hashBuffer("hello"), content |-> compress("hello", DefaultLevel),
      originalSize |-> Length("hello"),
      compressedSize |-> CompressedLength(compress("hello", DefaultLevel))],
     [hash |-> hashBuffer("hello"), content |-> compress("world", 9),
      originalSize |-> 0, compressedSize |-> 1],
     [hash |-> hashBuffer("world"), content |-> compress("world", DefaultLevel),
      originalSize |-> Length("world"),
      compressedSize |-> CompressedLength(compress("world", DefaultLevel))]}

\* FileRecord values: two package ids, one path, two digests, two (mode, mtime)
ApiFiles ==
    {[packageId |-> id, relativePath |-> <<"i.js">>, blobHash |-> h, mode |-> m[1],
      mtime |-> m[2]]
        : id \in 1..2, h \in {hashBuffer("hello"), hashBuffer("world")},
          m \in {<<FileMode, FileMtime>>, <<493, 2000>>}}

\* files.package_id REFERENCES packages(id), files.blob_hash REFERENCES
\* blobs(hash): better-sqlite3 opens a database with foreign keys enforced, so
\* an INSERT that names a row that is not there fails
foreignKeysOk(tb, packageId, blobHash) ==
    /\ \E p \in tb.packages : p.id = packageId
    /\ hasBlob(tb, blobHash)

ApiInit ==
    /\ tree = {}
    /\ out = {}
    /\ disk = StoreOpen([exists |-> FALSE, tables |-> EmptyTables, wal |-> FALSE,
                         shm |-> FALSE])
    /\ store = "open"
    /\ saved = EmptyTables
    /\ pc = "api"
    /\ pk = PkInit
    /\ ux = UxInit
    /\ sr = SrInit
    /\ res = NoResult
    /\ cmds = 0
    /\ env = FALSE
    /\ packed = NotPacked
    /\ call = NoCall
    /\ other = NoOther
    /\ found = NoFound

ApiInsertPackage ==
    /\ pc = "api"
    /\ \E pkg \in ApiPackages :
        /\ disk' = [disk EXCEPT !.tables = insertPackage(disk.tables, pkg)]
        /\ call' = [call EXCEPT !.op = "insertPackage", !.args = pkg,
                                !.before = disk.tables,
                                !.returned = insertPackageId(disk.tables, pkg),
                                !.threw = FALSE]
    /\ UNCHANGED <<tree, out, store, saved, pc, pk, ux, sr, res, cmds, env, packed, other, found>>

ApiInsertBlob ==
    /\ pc = "api"
    /\ \E blob \in ApiBlobs :
        /\ disk' = [disk EXCEPT !.tables =
                        insertBlob(disk.tables, blob.hash, blob.content, blob.originalSize,
                                   blob.compressedSize)]
        /\ call' = [call EXCEPT !.op = "insertBlob", !.args = blob, !.before = disk.tables,
                                !.returned = 0, !.threw = FALSE]
    /\ UNCHANGED <<tree, out, store, saved, pc, pk, ux, sr, res, cmds, env, packed, other, found>>

\* the insertFile calls that returned, the last one for each (packageId, relativePath)
lastFilesAfter(last, file) ==
    {l \in last : ~(l.packageId = file.packageId /\ l.relativePath = file.relativePath)}
        \cup {file}

ApiInsertFile ==
    /\ pc = "api"
    /\ \E file \in ApiFiles :
        IF foreignKeysOk(disk.tables, file.packageId, file.blobHash)
        THEN /\ disk' = [disk EXCEPT !.tables =
                            insertFile(disk.tables, file.packageId, file.relativePath,
                                       file.blobHash, file.mode, file.mtime)]
             /\ call' = [call EXCEPT !.op = "insertFile", !.args = file,
                                     !.before = disk.tables, !.returned = 0,
                                     !.threw = FALSE,
                                     !.lastFiles = lastFilesAfter(call.lastFiles, file)]
        ELSE /\ disk' = disk
             /\ call' = [call EXCEPT !.op = "insertFile", !.args = file,
                                     !.before = disk.tables, !.returned = 0,
                                     !.threw = TRUE]
    /\ UNCHANGED <<tree, out, store, saved, pc, pk, ux, sr, res, cmds, env, packed, other, found>>

ApiNext == ApiInsertPackage \/ ApiInsertBlob \/ ApiInsertFile

SpecStore == ApiInit /\ [][ApiNext]_vars

(***************************************************************************)
(* Two commands at once on one database path: pack, and a second process   *)
(* of the CLI that reads the snapshot as unpack does (the database check,  *)
(* new Store, getAllFiles, getBlob for each row, close).  Nothing in the   *)
(* code keeps two processes apart; what each sees is what SQLite in WAL    *)
(* mode gives two connections to one file.                                 *)
(***************************************************************************)
InTransaction(p) == p \in {"pack_package", "pack_file", "pack_insert"}

CommittedDirty(d, s, p) == d.tables

\* the rows a connection other than the writer's reads: those of the last
\* COMMIT (d: the file as its writer sees it, s: the tables at BEGIN, p: where
\* the writer is)
Committed(d, s, p) == IF InTransaction(p) THEN s ELSE d.tables

\* the writer has written inside its transaction and holds the write lock
\* until COMMIT or ROLLBACK
WriteLocked(d, s, p) == InTransaction(p) /\ d.tables # s

\* what the second process reads: the file it opened
View(o, d, s, p) == IF o.live THEN Committed(d, s, p) ELSE o.file

ConcTrees ==
    {{Dir(<< >>), Dir(<<"a">>), File(<<"a", "package.json">>, "{a@1}"),
      File(<<"a", "i.js">>, "hello"), Dir(<<"b">>), File(<<"b", "package.json">>, "{}"),
      File(<<"b", "i.js">>, "hello")},
     {Dir(<< >>), Dir(<<"a">>), File(<<"a", "package.json">>, "{a@1}"),
      Unreadable(<<"a", "i.js">>, "hello"), Dir(<<"b">>),
      File(<<"b", "package.json">>, "{}"), File(<<"b", "i.js">>, "world")}}

ConcInit ==
    /\ tree \in ConcTrees
    /\ out = {}
    /\ disk \in {d \in Disks : ~d.wal}
    /\ store = "none"
    /\ saved = EmptyTables
    /\ pc = "idle"
    /\ pk = PkInit
    /\ ux = UxInit
    /\ sr = SrInit
    /\ res = NoResult
    /\ cmds = 0
    /\ env = FALSE
    /\ packed = NotPacked
    /\ call = NoCall
    /\ other = NoOther
    /\ found = NoFound

\* if (!existsSync(dbPath)) throw
OtherStart ==
    /\ other.pc = "none"
    /\ other' = IF disk.exists THEN [other EXCEPT !.pc = "open"]
                ELSE [other EXCEPT !.pc = "done", !.error = "DatabaseNotFound"]
    /\ UNCHANGED <<tree, out, disk, store, saved, pc, pk, ux, sr, res, cmds, env, packed, call, found>>

\* new Store(dbPath): new Database opens the file read-write (and creates it
\* when pack has just removed it); initSchema's INSERT needs the write lock
\* and fails with SQLITE_BUSY when the writer still holds it after the busy
\* timeout.  The handle stays open until the process ends.
OtherOpen ==
    /\ other.pc = "open"
    /\ IF WriteLocked(disk, saved, pc)
       THEN /\ other' = [other EXCEPT !.pc = "done", !.store = "open", !.live = TRUE,
                                      !.error = "Busy"]
            /\ UNCHANGED <<disk, saved>>
       ELSE /\ other' = [other EXCEPT !.pc = "read", !.store = "open", !.live = TRUE]
            /\ disk' = [StoreOpen(disk) EXCEPT !.wal = TRUE, !.shm = TRUE]
            /\ saved' = IF InTransaction(pc)
                        THEN setMetadata(saved, "schema_version", SCHEMA_VERSION)
                        ELSE saved
    /\ UNCHANGED <<tree, out, store, pc, pk, ux, sr, res, cmds, env, packed, call, found>>

\* store.getAllFiles()
OtherRead ==
    /\ other.pc = "read"
    /\ other' = [other EXCEPT !.pc = "blobs",
                              !.files = getAllFiles(View(other, disk, saved, pc))]
    /\ UNCHANGED <<tree, out, disk, store, saved, pc, pk, ux, sr, res, cmds, env, packed, call, found>>

\* store.getBlob(file.blobHash) for one row
OtherBlob ==
    /\ other.pc = "blobs"
    /\ \E file \in other.files :
        /\ \A x \in other.seen : x.file # file
        /\ other' = [other EXCEPT !.seen = other.seen \cup
                        {[file |-> file,
                          blob |-> getBlob(View(other, disk, saved, pc), file.blobHash)]}]
    /\ UNCHANGED <<tree, out, disk, store, saved, pc, pk, ux, sr, res, cmds, env, packed, call, found>>

\* store.close()
OtherClose ==
    /\ other.pc = "blobs"
    /\ \A file \in other.files : \E x \in other.seen : x.file = file
    /\ other' = [other EXCEPT !.pc = "done", !.store = "closed", !.live = FALSE]
    /\ disk' = IF other.live /\ store # "open" THEN StoreClose(disk) ELSE disk
    /\ UNCHANGED <<tree, out, store, saved, pc, pk, ux, sr, res, cmds, env, packed, call, found>>

ConcNext ==
    \/ PackScan \/ PackCleanup \/ PackOpen \/ PackPackage \/ PackBlob \/ PackFile
    \/ PackCommit \/ PackClose
    \/ OtherStart \/ OtherOpen \/ OtherRead \/ OtherBlob \/ OtherClose

SpecConc == ConcInit /\ [][ConcNext]_vars

(***************************************************************************)
(* The scanner's two enumerations, each called on a node_modules directory *)
(* of any shape: plain and scoped packages, hidden directories, regular    *)
(* files and symbolic links among the entries, and a .pnpm farm.           *)
(***************************************************************************)
Link(p) == [path |-> p, kind |-> "link", content |-> "", readable |-> TRUE]

Manifest(p) == File(p \o <<"package.json">>, "{a@1}")

\* the scope @s at dir: absent, a regular file of that name, empty, with a
\* package, with a file, with two packages and a file
ScopeShapes(dir) ==
    LET s == dir \o <<"@s">>
    IN  {{},
         {File(s, "oops")},
         {Dir(s)},
         {Dir(s), Dir(s \o <<"c">>), Manifest(s \o <<"c">>)},
         {Dir(s), File(s \o <<"x.txt">>, "hello")},
         {Dir(s), Dir(s \o <<"c">>), Manifest(s \o <<"c">>), Dir(s \o <<".bin">>),
          File(s \o <<"x.txt">>, "hello")}}

\* hidden directories at dir: none, .bin, .cache, .pnpm, or .bin and .cache
HiddenShapes(dir) ==
    LET hidden(h) == {Dir(dir \o <<h>>), Manifest(dir \o <<h>>)}
    IN  {{}, hidden(".bin"), hidden(".cache"), hidden(".pnpm"),
         hidden(".bin") \cup hidden(".cache")}

\* an entry at dir that is no directory: none, a regular file, a symbolic link
\* to a package directory
OtherShapes(dir) == {{}, {File(dir \o <<"x.txt">>, "hello")}, {Link(dir \o <<"l">>)}}

FlatTrees ==
    {{Dir(<< >>)} \cup a \cup s \cup h \cup o :
        a \in {{}, PkgAFull}, s \in ScopeShapes(<< >>), h \in HiddenShapes(<< >>),
        o \in OtherShapes(<< >>)}

\* the farm entry f@1: absent, without node_modules, with a node_modules that
\* is a regular file, and with a node_modules directory of any flat shape
FarmEntryShapes ==
    LET e == <<".pnpm", "f@1">>
        inner == e \o <<"node_modules">>
    IN  {{}, {Dir(e)}, {Dir(e), File(inner, "oops")}}
            \cup {{Dir(e), Dir(inner)} \cup f \cup s \cup h \cup o :
                    f \in {{}, {Dir(inner \o <<"f">>), Manifest(inner \o <<"f">>)}},
                    s \in ScopeShapes(inner), h \in HiddenShapes(inner),
                    o \in OtherShapes(inner)}

\* the farm's other entries: a directory named node_modules, a hidden
\* directory, a regular file; each with what would be a package inside
FarmOtherShapes ==
    LET pkgIn(e) == {Dir(e), Dir(e \o <<"node_modules">>),
                     Dir(e \o <<"node_modules", "g">>),
                     Manifest(e \o <<"node_modules", "g">>)}
    IN  {{},
         pkgIn(<<".pnpm", "node_modules">>),
         pkgIn(<<".pnpm", ".x">>),
         {File(<<".pnpm", "lock.yaml">>, "oops")}}

FarmTrees ==
    {{Dir(<< >>), Dir(<<".pnpm">>)} \cup a \cup e \cup o :
        a \in {{}, PkgAFull}, e \in FarmEntryShapes, o \in FarmOtherShapes}

ScanTrees == FlatTrees \cup FarmTrees

ScanInit ==
    /\ tree \in ScanTrees
    /\ out = {}
    /\ disk = [exists |-> FALSE, tables |-> EmptyTables, wal |-> FALSE, shm |-> FALSE]
    /\ store = "none"
    /\ saved = EmptyTables
    /\ pc = "scan"
    /\ pk = PkInit
    /\ ux = UxInit
    /\ sr = SrInit
    /\ res = NoResult
    /\ cmds = 0
    /\ env = FALSE
    /\ packed = NotPacked
    /\ call = NoCall
    /\ other = NoOther
    /\ found = NoFound

\* for await (const pkg of findPackageDirs(nodeModulesPath))
ScanPackageDirs ==
    /\ pc = "scan"
    /\ found' = [fn |-> "findPackageDirs", dirs |-> findPackageDirs(tree, << >>),
                 threw |-> FALSE]
    /\ UNCHANGED <<tree, out, disk, store, saved, pc, pk, ux, sr, res, cmds, env, packed>>
    /\ UNCHANGED <<call, other>>

\* readdir throws on a path that is missing (ENOENT) or no directory (ENOTDIR)
findPnpmPackageDirsThrows(t, nodeModulesPath) ==
    LET pnpmPath == join(nodeModulesPath, <<".pnpm">>)
    IN  \/ ~existsSync(t, pnpmPath)
        \/ ~isDirectory(NodeAt(t, pnpmPath))
        \/ \E entry \in readdir(t, pnpmPath) :
                /\ isDirectory(entry)
                /\ ~(EntryName(entry) = "node_modules" \/ StartsWith(EntryName(entry), "."))
                /\ existsSync(t, join(entry.path, <<"node_modules">>))
                /\ ~isDirectory(NodeAt(t, join(entry.path, <<"node_modules">>)))

\* for await (const pkg of findPnpmPackageDirs(nodeModulesPath))
ScanPnpmPackageDirs ==
    /\ pc = "scan"
    /\ found' = IF findPnpmPackageDirsThrows(tree, << >>)
                THEN [fn |-> "findPnpmPackageDirs", dirs |-> {}, threw |-> TRUE]
                ELSE [fn |-> "findPnpmPackageDirs",
                      dirs |-> findPnpmPackageDirs(tree, << >>), threw |-> FALSE]
    /\ UNCHANGED <<tree, out, disk, store, saved, pc, pk, ux, sr, res, cmds, env, packed>>
    /\ UNCHANGED <<call, other>>

ScanNext == ScanPackageDirs \/ ScanPnpmPackageDirs

SpecScan == ScanInit /\ [][ScanNext]_vars

(***************************************************************************)
(* Extraction of a snapshot whose blobs are small, just below and at the   *)
(* cache limit, and above it, with digests that several file rows share.   *)
(***************************************************************************)
BlobOf(content) ==
    [hash |-> hashBuffer(content), content |-> compress(content, DefaultLevel),
     original_size |-> Length(content),
     compressed_size |-> CompressedLength(compress(content, DefaultLevel))]

FileOf(id, packageId, name, content) ==
    [id |-> id, package_id |-> packageId, relative_path |-> <<name>>,
     blob_hash |-> hashBuffer(content), mode |-> FileMode, mtime |-> FileMtime]

\* two packages; "hello" and "huge" are each the content of a file in both
ExtractTables ==
    [metadata |-> {[key |-> "schema_version", value |-> SCHEMA_VERSION]},
     packages |-> {[id |-> 1, name |-> "a", version |-> "1", path |-> <<"a">>],
                   [id |-> 2, name |-> "b", version |-> "1", path |-> <<"b">>]},
     blobs |-> {BlobOf("hello"), BlobOf("edge"), BlobOf("big"), BlobOf("huge")},
     files |-> {FileOf(1, 1, "s.js", "hello"), FileOf(2, 2, "s.js", "hello"),
                FileOf(3, 1, "e.js", "edge"), FileOf(4, 1, "big.js", "big"),
                FileOf(5, 1, "h.js", "huge"), FileOf(6, 2, "h.js", "huge")},
     seqPackages |-> 2, seqFiles |-> 6]

\* the same snapshot with one more row, whose blob is no gzip member
CorruptTables ==
    [ExtractTables EXCEPT
        !.blobs = @ \cup {[BlobOf("oops") EXCEPT !.content = NotGzip]},
        !.files = @ \cup {FileOf(7, 1, "bad.js", "oops")},
        !.seqFiles = 7]

ExtractDisks ==
    {[exists |-> TRUE, tables |-> tb, wal |-> FALSE, shm |-> FALSE]
        : tb \in {ExtractTables, CorruptTables}}

ExtractInit ==
    /\ tree = {}
    /\ out \in OutDirs
    /\ disk \in ExtractDisks
    /\ store = "none"
    /\ saved = EmptyTables
    /\ pc = "idle"
    /\ pk = PkInit
    /\ ux = UxInit
    /\ sr = SrInit
    /\ res = NoResult
    /\ cmds = 0
    /\ env = FALSE
    /\ packed = NotPacked
    /\ call = NoCall
    /\ other = NoOther
    /\ found = NoFound

ExtractNext == UnpackStart \/ UnpackOpen \/ ExtractFile \/ UnpackClose

SpecExtract == ExtractInit /\ [][ExtractNext]_vars

(***************************************************************************)
(* Properties                                                              *)
(***************************************************************************)
\* the files the scan of tree t emits, as (path below the root, bytes) pairs
ScannedFiles(t) ==
    UNION {{<<join(p.path, f.relativePath), NodeAt(t, f.absolutePath).content>>
                : f \in p.files}
            : p \in scanNodeModules(t, << >>).packages}

\* unpack has just returned, from the snapshot the last pack committed, into
\* an output directory that was absent or removed by force
RoundTripDone ==
    /\ pc = "idle" /\ res.cmd = "unpack" /\ res.error = ""
    /\ packed.done

\* C1 as stated: after pack of T and unpack into an empty output directory,
\* the output holds exactly the files of T, each with T's bytes.
C1_RoundTripWholeTree == RoundTripDone => FilesOf(out) = FilesOf(packed.tree)

\* C1 amended: after pack of T and unpack into an empty output directory, the
\* output holds exactly the files of T that the scan emitted (the files below
\* a package directory whose package.json was read and parsed), each at its
\* path relative to the root and with T's bytes; no other file is written.
C1_RoundTripScannedFiles == RoundTripDone => FilesOf(out) = ScannedFiles(packed.tree)

\* a round trip of a tree that holds a file outside every scanned package
C1_Witness ==
    /\ RoundTripDone
    /\ Cardinality(FilesOf(out)) >= 3
    /\ FilesOf(out) # FilesOf(packed.tree)

\* pack has just returned and its snapshot is at the database path
PackDone == pc = "idle" /\ res.cmd = "pack" /\ res.error = "" /\ packed.done

BlobRows(tb, content) == {b \in tb.blobs : b.hash = hashBuffer(content)}

TreeContents(t) == {n.content : n \in {x \in t : isFile(x)}}

\* how many files of tree t hold these bytes
CountInTree(t, content) == Cardinality({n \in t : isFile(n) /\ n.content = content})

\* how many files the scan of t emits that hold these bytes
CountScanned(t, content) == Cardinality({x \in ScannedFiles(t) : x[2] = content})

\* C2 as stated: when the tree holds N files with the same bytes, pack leaves
\* exactly one blob row for them and reports deduplicated >= N - 1.
C2_DedupWholeTree ==
    PackDone =>
        \A c \in TreeContents(packed.tree) :
            /\ Cardinality(BlobRows(disk.tables, c)) = 1
            /\ res.deduplicated >= CountInTree(packed.tree, c) - 1

\* C2 amended: when the scan emits N >= 1 files with the same bytes, pack
\* leaves exactly one blob row for them and reports deduplicated >= N - 1;
\* bytes that only files outside the scanned packages hold have no blob row.
C2_DedupScannedFiles ==
    PackDone =>
        \A c \in TreeContents(packed.tree) :
            /\ Cardinality(BlobRows(disk.tables, c)) =
                    IF CountScanned(packed.tree, c) >= 1 THEN 1 ELSE 0
            /\ res.deduplicated >= CountScanned(packed.tree, c) - 1

\* pack has deduplicated at least two files, and the tree holds one more
\* file with those bytes that the scan did not emit
C2_Witness ==
    /\ PackDone
    /\ res.deduplicated >= 2
    /\ \E c \in TreeContents(packed.tree) :
            /\ CountScanned(packed.tree, c) >= 2
            /\ CountInTree(packed.tree, c) > CountScanned(packed.tree, c)

\* C3: in the snapshot pack committed, every file row's blob exists, its
\* decompressed bytes hash to the row's blob_hash, and they are the bytes the
\* file had when pack read it.
C3_DigestCorrect ==
    packed.done =>
        \A f \in getAllFiles(disk.tables) :
            /\ getBlob(disk.tables, f.blobHash) # Null
            /\ hashBuffer(decompress(Get(getBlob(disk.tables, f.blobHash)))) = f.blobHash
            /\ decompress(Get(getBlob(disk.tables, f.blobHash))) =
                    NodeAt(packed.tree, join(f.packagePath, f.relativePath)).content

\* a committed snapshot with file rows of different digests
C3_Witness ==
    /\ packed.done
    /\ Cardinality({f.blobHash : f \in getAllFiles(disk.tables)}) >= 2
    /\ Cardinality(getAllFiles(disk.tables)) >= 3

PackRunning == pc \in {"pack_package", "pack_file", "pack_insert", "pack_close"}

\* C4: at every step of the pack transaction every file row references a blob
\* row that exists, and the blob for a digest is there when pack is about to
\* insert the file row that names it.
C4_BlobBeforeFile ==
    PackRunning =>
        /\ \A f \in disk.tables.files : hasBlob(disk.tables, f.blob_hash)
        /\ pc = "pack_insert" => hasBlob(disk.tables, pk.hash)

\* pack is about to insert a file row whose blob an earlier file inserted
C4_Witness ==
    /\ pc = "pack_insert"
    /\ pk.deduplicatedCount >= 1
    /\ disk.tables.files # {}

RowsOf(tb) == <<tb.packages, tb.blobs, tb.files>>

\* C5: when the function run by Store.transaction throws (a file of the
\* scan cannot be read), pack fails with that error and no package, blob or
\* file row it wrote remains; when it returns, every row is committed (one
\* package row per scanned package, one file row per scanned file) and
\* the deduplicated count it returned is the one pack reports.
C5_TransactionAllOrNothing ==
    /\ (pc = "idle" /\ res.cmd = "pack" /\ res.error = "IoError" /\ res.opened) =>
            RowsOf(disk.tables) = RowsOf(EmptyTables)
    /\ PackDone =>
            /\ Cardinality(disk.tables.packages) =
                    Cardinality(scanNodeModules(packed.tree, << >>).packages)
            /\ Cardinality(disk.tables.files) = scanNodeModules(packed.tree, << >>).totalFiles
            /\ res.deduplicated =
                    Cardinality(disk.tables.files) - Cardinality(disk.tables.blobs)

\* the transaction threw at its third file or later: rows had been written
C5_Witness ==
    /\ pc = "idle" /\ res.cmd = "pack" /\ res.error = "IoError" /\ res.opened
    /\ res.totalFiles >= 3
    /\ disk.exists

\* the rows of the finished snapshot are rows of this run: one package row
\* per scanned package, one file row per scanned file, nothing else
OnlyRowsOfThisRun ==
    /\ {r.path : r \in disk.tables.packages} =
            {p.path : p \in scanNodeModules(packed.tree, << >>).packages}
    /\ {<<f.packagePath, f.relativePath>> : f \in getAllFiles(disk.tables)} =
            UNION {{<<p.path, f.relativePath>> : f \in p.files}
                        : p \in scanNodeModules(packed.tree, << >>).packages}
    /\ Cardinality(disk.tables.files) = Cardinality(getAllFiles(disk.tables))

\* C6 as stated: whatever was at the database path and its -wal and -shm
\* siblings, none of the three exists when pack opens the Store; the finished
\* snapshot holds only rows of this run and no sidecar remains after close.
C6_FreshWhateverWasThere ==
    /\ pc = "pack_open" => ~disk.exists /\ ~disk.wal /\ ~disk.shm
    /\ PackDone => OnlyRowsOfThisRun /\ ~disk.wal /\ ~disk.shm

\* C6 amended: when pack opens the Store the database file does not exist,
\* and its -wal and -shm siblings do not exist either if the database file
\* was there when pack cleaned up (sidecars without a database file are left
\* in place); the finished snapshot holds only rows of this run and no sidecar
\* remains after close.
C6_FreshWhenDbExisted ==
    /\ pc = "pack_open" => ~disk.exists /\ (pk.hadDb => ~disk.wal /\ ~disk.shm)
    /\ PackDone => OnlyRowsOfThisRun /\ ~disk.wal /\ ~disk.shm

\* pack over an old snapshot with sidecars has finished with rows of its own
C6_Witness ==
    /\ PackDone
    /\ cmds = 1
    /\ disk.tables.files # {}
    /\ \A r \in disk.tables.packages : r.name # "old"

Range(seq) == {seq[i] : i \in 1..Len(seq)}

StatusDone == pc = "idle" /\ res.cmd = "status" /\ res.error = "" /\ ~env

\* the file rows of the snapshot whose tree path is in the given state
RowsMissing == {f \in getAllFiles(disk.tables) :
                    ~existsSync(tree, join(f.packagePath, f.relativePath))}

RowsSame ==
    {f \in getAllFiles(disk.tables) :
        /\ CanRead(tree, join(f.packagePath, f.relativePath))
        /\ hashBuffer(NodeAt(tree, join(f.packagePath, f.relativePath)).content) = f.blobHash}

RowsModified == (getAllFiles(disk.tables) \ RowsMissing) \ RowsSame

StatusClassified ==
    /\ Range(res.status.onlyInDb) = {join(f.packagePath, f.relativePath) : f \in RowsMissing}
    /\ Len(res.status.onlyInDb) = Cardinality(RowsMissing)
    /\ Range(res.status.modified) = {join(f.packagePath, f.relativePath) : f \in RowsModified}
    /\ Len(res.status.modified) = Cardinality(RowsModified)
    /\ res.status.unchanged = Cardinality(RowsSame)
    /\ Len(res.status.onlyInDb) + Len(res.status.modified) + res.status.unchanged =
            Cardinality(disk.tables.files)
    /\ res.status.onlyInFs = << >>

\* C7 as stated: whenever status returns a result, every file row is in
\* exactly one of onlyInDb (path missing), modified (bytes hash differently or
\* cannot be read) and unchanged; the three counts add up to the number of
\* file rows and onlyInFs is empty.
C7_StatusClassifiesAlways == StatusDone => StatusClassified

\* C7 amended: whenever status returns a result and the tree directory
\* exists, every file row is in exactly one of onlyInDb, modified and
\* unchanged, the three counts add up to the number of file rows, and onlyInFs
\* is empty.  (When the tree directory is absent status returns the empty
\* result whatever the file rows are.)
C7_StatusClassifiesExistingTree ==
    (StatusDone /\ existsSync(tree, << >>)) => StatusClassified

\* status has returned a result over three or more file rows, some unchanged
\* and some not
C7_Witness ==
    /\ StatusDone
    /\ existsSync(tree, << >>)
    /\ res.status.unchanged >= 1
    /\ Len(res.status.modified) + Len(res.status.onlyInDb) >= 1
    /\ Cardinality(disk.tables.files) >= 3

\* C8: status with the database file absent fails with DatabaseNotFound, also
\* when the tree is absent; with the database present and the tree absent it
\* returns the empty result and opens no Store.
C8_StatusChecksInOrder ==
    (pc = "idle" /\ res.cmd = "status" /\ ~env) =>
        /\ ~disk.exists => res.error = "DatabaseNotFound"
        /\ (disk.exists /\ ~existsSync(tree, << >>)) =>
                /\ res.error = ""
                /\ res.status = EmptyStatus
                /\ ~res.opened
                /\ store = "none"

\* status has failed with both the database file and the tree absent
C8_Witness ==
    /\ pc = "idle" /\ res.cmd = "status" /\ ~env
    /\ ~disk.exists /\ ~existsSync(tree, << >>)
    /\ res.error = "DatabaseNotFound"

\* C9: unpack with the database file absent fails with DatabaseNotFound;
\* with the database present, the output present and force unset it fails with
\* OutputExists; whenever it fails with one of these the output directory is
\* as it was, also with force set.
C9_UnpackChecks ==
    (pc = "idle" /\ res.cmd = "unpack" /\ ~env) =>
        /\ ~disk.exists => res.error = "DatabaseNotFound"
        /\ (disk.exists /\ ux.out0 # {} /\ ~ux.force) => res.error = "OutputExists"
        /\ res.error \in {"DatabaseNotFound", "OutputExists"} => out = ux.out0 /\ ~res.opened

\* unpack --force has failed for a missing database with an output present
C9_Witness ==
    /\ pc = "idle" /\ res.cmd = "unpack" /\ ~env
    /\ res.error = "DatabaseNotFound"
    /\ ux.force
    /\ ux.out0 # {}

RECURSIVE SumLength(_)
SumLength(rows) ==
    IF rows = {} THEN 0
    ELSE LET f == CHOOSE x \in rows : TRUE
         IN  Length(decompress(Get(getBlob(disk.tables, f.blobHash)))) + SumLength(rows \ {f})

RowsWithBlob == {f \in getAllFiles(disk.tables) : getBlob(disk.tables, f.blobHash) # Null}

\* C10: a file row whose blob is missing is not written and does not stop the
\* extraction: unpack returns without error, every row with a blob is written
\* with its decompressed bytes, totalSize is the sum of the lengths written and
\* totalFiles the number of file rows loaded.
C10_MissingBlobSkipped ==
    /\ res.cmd = "unpack" => res.error \in {"", "DatabaseNotFound", "OutputExists"}
    /\ (pc = "idle" /\ res.cmd = "unpack" /\ res.opened /\ res.error = "" /\ ~env) =>
            /\ \A f \in getAllFiles(disk.tables) \ RowsWithBlob :
                    ~existsSync(out, join(f.packagePath, f.relativePath))
            /\ FilesOf(out) =
                    {<<join(f.packagePath, f.relativePath),
                       decompress(Get(getBlob(disk.tables, f.blobHash)))>> : f \in RowsWithBlob}
            /\ res.totalSize = SumLength(RowsWithBlob)
            /\ res.totalFiles = Cardinality(getAllFiles(disk.tables))

\* an extraction has finished that skipped one file and wrote another
C10_Witness ==
    /\ pc = "idle" /\ res.cmd = "unpack" /\ res.opened /\ res.error = "" /\ ~env
    /\ ux.skipped # {}
    /\ ux.written # {}
    /\ res.totalSize > 0

\* C11: in the blobs table a digest appears at most once, whatever Store
\* statements were called; an insertBlob whose digest is already there changes
\* nothing: the row keeps the content, the original size and the compressed
\* size of the first insert, also when the call carries other values.
C11_IdempotentBlobInsert ==
    /\ \A b1, b2 \in disk.tables.blobs : b1.hash = b2.hash => b1 = b2
    /\ (call.op = "insertBlob" /\ \E b \in call.before.blobs : b.hash = call.args.hash) =>
            disk.tables = call.before
    /\ (call.op = "insertBlob" /\ ~\E b \in call.before.blobs : b.hash = call.args.hash) =>
            \E b \in disk.tables.blobs :
                /\ b.hash = call.args.hash
                /\ b.content = call.args.content
                /\ b.original_size = call.args.originalSize
                /\ b.compressed_size = call.args.compressedSize

\* a second insertBlob of a digest has just carried another content and
\* other sizes than the row holds
C11_Witness ==
    /\ call.op = "insertBlob"
    /\ \E b \in call.before.blobs :
            /\ b.hash = call.args.hash
            /\ b.content # call.args.content
            /\ b.original_size # call.args.originalSize
            /\ b.compressed_size # call.args.compressedSize
    /\ call.before.files # {}

\* C12: insertPackage with a (name, version, path) that has a row returns that
\* row's id and leaves the package rows as they were; with a new triple it
\* adds one row and returns its id; two rows never share an id or a triple.
C12_InsertPackageUpsert ==
    /\ \A p1, p2 \in disk.tables.packages :
            p1 # p2 => /\ p1.id # p2.id
                       /\ <<p1.name, p1.version, p1.path>> # <<p2.name, p2.version, p2.path>>
    /\ call.op = "insertPackage" =>
            /\ \A r \in call.before.packages :
                    (r.name = call.args.name /\ r.version = call.args.version
                        /\ r.path = call.args.path) =>
                            /\ call.returned = r.id
                            /\ disk.tables.packages = call.before.packages
            /\ \E r \in disk.tables.packages :
                    /\ r.name = call.args.name /\ r.version = call.args.version
                    /\ r.path = call.args.path
                    /\ r.id = call.returned
            /\ Cardinality(disk.tables.packages) <= Cardinality(call.before.packages) + 1

\* insertPackage has just been called again for the first of three triples
C12_Witness ==
    /\ call.op = "insertPackage"
    /\ Cardinality(call.before.packages) = 3
    /\ call.returned = 1

\* C13: there is at most one file row per (package_id, relative_path); the
\* row of a key holds the blob digest, the mode and the mtime of the last
\* insertFile call for that key that returned, and a call changes no other
\* row.  (A call that names a package id or a digest without a row is
\* rejected by the foreign key and changes nothing.)
C13_InsertFileUpsert ==
    /\ \A f1, f2 \in disk.tables.files :
            (f1.package_id = f2.package_id /\ f1.relative_path = f2.relative_path) => f1 = f2
    /\ {[packageId |-> f.package_id, relativePath |-> f.relative_path,
         blobHash |-> f.blob_hash, mode |-> f.mode, mtime |-> f.mtime]
            : f \in disk.tables.files} = call.lastFiles
    /\ call.op = "insertFile" =>
            /\ \A f \in call.before.files :
                    ~(f.package_id = call.args.packageId
                        /\ f.relative_path = call.args.relativePath) => f \in disk.tables.files
            /\ Cardinality(disk.tables.files) =
                    IF call.threw \/ FileRow(call.before, call.args.packageId,
                                             call.args.relativePath) # {}
                    THEN Cardinality(call.before.files)
                    ELSE Cardinality(call.before.files) + 1
            /\ disk.tables.packages = call.before.packages
            /\ disk.tables.blobs = call.before.blobs
            /\ call.threw => disk.tables = call.before

\* insertFile has just overwritten the digest, the mode and the mtime of a
\* key's row while another key has a row
C13_Witness ==
    /\ call.op = "insertFile" /\ ~call.threw
    /\ \E f \in call.before.files :
            /\ f.package_id = call.args.packageId /\ f.relative_path = call.args.relativePath
            /\ f.blob_hash # call.args.blobHash
            /\ f.mode # call.args.mode
            /\ f.mtime # call.args.mtime
    /\ Cardinality(disk.tables.files) = 2

\* the root has a child directory named .pnpm
PnpmIsDirectory(t) ==
    \E n \in readdir(t, << >>) : EntryName(n) = ".pnpm" /\ isDirectory(n)

\* C14: the scan enumerates the farm exactly when the root has a child
\* directory named .pnpm, and then emits no plain sibling of the root as a
\* package; in every other case it enumerates the flat layout, so the scan of
\* a root without such a directory does not fail.
C14_LayoutDetection ==
    /\ pc = "pack_cleanup" =>
            pk.pkgsLeft =
                scanPackages(tree, IF PnpmIsDirectory(tree)
                                   THEN findPnpmPackageDirs(tree, << >>)
                                   ELSE findPackageDirs(tree, << >>))
    /\ (pc = "idle" /\ res.cmd = "pack" /\ res.error = "IoError" /\ ~res.opened /\ ~env) =>
            PnpmIsDirectory(tree)

\* a step adds a row to one of the four tables
RowsCreated ==
    \/ disk'.tables.metadata \ disk.tables.metadata # {}
    \/ disk'.tables.packages \ disk.tables.packages # {}
    \/ disk'.tables.blobs \ disk.tables.blobs # {}
    \/ disk'.tables.files \ disk.tables.files # {}

\* C15: a row of metadata, packages, blobs or files is created only by a
\* step of pack inside its write transaction, and every step of unpack and of
\* status leaves the content of the database as it was.
C15_ReadOnlyUnpackStatus ==
    [][/\ RowsCreated => pc \in {"pack_package", "pack_file", "pack_insert"}
       /\ pc \in {"unpack_open", "extract", "status_open", "status_loop"} =>
                disk'.tables = disk.tables]_vars

\* C16: while pack's Store is open on the database file, the second process
\* has no Store open on the same file whose constructor wrote to it.
C16_ExclusiveWriter ==
    ~(/\ pc # "idle" /\ store = "open"
      /\ other.store = "open" /\ other.live /\ other.error = "")

\* the (package path, relative path) of every file row the running or the
\* last pack writes
PackKeys ==
    UNION {{<<p.path, f.relativePath>> : f \in p.files}
                : p \in scanNodeModules(packed.tree, << >>).packages}

\* the file rows of that pack among those the second process got
SeenOfPack == {f \in other.files : <<f.packagePath, f.relativePath>> \in PackKeys}

ScannedEntries(t) ==
    UNION {{[packagePath |-> p.path, relativePath |-> f.relativePath,
             content |-> NodeAt(t, f.absolutePath).content, mode |-> f.mode,
             mtime |-> f.mtime] : f \in p.files}
                : p \in scanNodeModules(t, << >>).packages}

\* the rows of one successful pack of tree t into a path where nothing was
SinglePackPackages(t) ==
    {[name |-> p.name, version |-> p.version, path |-> p.path]
        : p \in scanNodeModules(t, << >>).packages}

SinglePackBlobs(t) ==
    {[hash |-> hashBuffer(e.content), content |-> compress(e.content, DefaultLevel),
      original_size |-> Length(e.content),
      compressed_size |-> CompressedLength(compress(e.content, DefaultLevel))]
        : e \in ScannedEntries(t)}

SinglePackFiles(t) ==
    {[packagePath |-> e.packagePath, relativePath |-> e.relativePath,
      blobHash |-> hashBuffer(e.content), mode |-> e.mode, mtime |-> e.mtime]
        : e \in ScannedEntries(t)}

\* C18: whatever the output path held when pack started (the snapshot of an
\* earlier successful pack of the tree, what a pack that failed inside its
\* transaction left, or anything else), a pack that succeeds leaves the
\* package, blob and file rows of a single pack of the tree into an empty
\* path, with ids counted from 1, and the same metadata but for created_at.
C18_RepackIdempotent ==
    PackDone =>
        /\ {[name |-> r.name, version |-> r.version, path |-> r.path]
                : r \in disk.tables.packages} = SinglePackPackages(packed.tree)
        /\ {r.id : r \in disk.tables.packages} = 1..Cardinality(SinglePackPackages(packed.tree))
        /\ disk.tables.blobs = SinglePackBlobs(packed.tree)
        /\ {[packagePath |-> f.packagePath, relativePath |-> f.relativePath,
             blobHash |-> f.blobHash, mode |-> f.mode, mtime |-> f.mtime]
                : f \in getAllFiles(disk.tables)} = SinglePackFiles(packed.tree)
        /\ {f.id : f \in disk.tables.files} = 1..Cardinality(SinglePackFiles(packed.tree))
        /\ {m \in disk.tables.metadata : m.key # "created_at"} =
                {[key |-> "schema_version", value |-> SCHEMA_VERSION],
                 [key |-> "node_version", value |-> "v20"],
                 [key |-> "source_path", value |-> "nm"]}

\* a second pack has succeeded after the first failed inside its
\* transaction with rows written
C18_Witness ==
    /\ PackDone
    /\ packed.prev = "failed"
    /\ Cardinality(disk.tables.files) >= 3
    /\ Cardinality(disk.tables.blobs) >= 2

\* the package directories the layout's enumeration yields for tree t
CandidateDirs(t) ==
    IF isPnpmStructure(t, << >>) THEN findPnpmPackageDirs(t, << >>)
    ELSE findPackageDirs(t, << >>)

\* the package.json of directory d is a regular file that can be read and
\* holds JSON
ManifestOk(t, d) ==
    \E n \in t :
        /\ n.path = d.path \o <<"package.json">>
        /\ n.kind = "file" /\ n.readable
        /\ n.content \in {"{a@1}", "{}"}

\* the regular files of t below one of the directories
FilesBelow(t, dirs) == {n \in t : isFile(n) /\ \E d \in dirs : IsPrefix(d.path, n.path)}

RECURSIVE SumNodes(_)
SumNodes(nodes) ==
    IF nodes = {} THEN 0
    ELSE LET n == CHOOSE x \in nodes : TRUE
         IN  Length(n.content) + SumNodes(nodes \ {n})

\* C19 (read between commands and right after pack's scan, where every tree
\* of a behaviour is seen): in every tree the scan can walk, a package
\* directory whose
\* package.json is missing, cannot be read or does not parse yields no package
\* and no file of it is counted in totalFiles or totalSize; every other
\* package directory yields its package, with "unknown" and "0.0.0" for a name
\* or version the manifest lacks; and pack gets past the scan.
C19_ManifestSkipped ==
    (pc \in {"idle", "pack_cleanup"} /\ existsSync(tree, << >>) /\ ~ScanThrows(tree, << >>)) =>
        LET good == {d \in CandidateDirs(tree) : ManifestOk(tree, d)}
            scan == scanNodeModules(tree, << >>)
        IN  /\ {p.path : p \in scan.packages} = {d.relativePath : d \in good}
            /\ scan.totalFiles = Cardinality(FilesBelow(tree, good))
            /\ scan.totalSize = SumNodes(FilesBelow(tree, good))
            /\ \A p \in scan.packages :
                    \E n \in tree :
                        /\ n.path = p.path \o <<"package.json">>
                        /\ p.name = (IF n.content = "{}" THEN "unknown" ELSE "a")
                        /\ p.version = (IF n.content = "{}" THEN "0.0.0" ELSE "1")
            /\ pc = "pack_cleanup" => pk.pkgsLeft = scan.packages
            /\ (pc = "idle" /\ res.cmd = "pack" /\ ~env) => res.opened

\* pack has scanned a tree with a package directory without a manifest and
\* another whose manifest has neither name nor version
C19_Witness ==
    /\ pc = "pack_cleanup"
    /\ \E d \in CandidateDirs(tree) : ~ManifestOk(tree, d)
    /\ \E p \in pk.pkgsLeft : p.name = "unknown" /\ p.version = "0.0.0" /\ p.files # {}

\* C20: the step in which pack checks its source and scans it leaves the
\* database file and its sidecars as they were, so a pack that fails with
\* SourceNotFound, or whose scan throws, has changed nothing at the output path.
C20_OutputUntouchedBeforeScanEnds ==
    [][(/\ pc = "idle"
        /\ cmds' = cmds + 1
        /\ res'.cmd = "pack" \/ pc' = "pack_cleanup") => disk' = disk]_vars

\* pack's scan has thrown with a snapshot and its sidecars at the output path
C20_Witness ==
    /\ pc = "idle" /\ res.cmd = "pack" /\ res.error = "IoError" /\ ~res.opened /\ ~env
    /\ cmds = 1
    /\ disk.exists /\ disk.wal /\ disk.shm
    /\ disk.tables = OldTables

\* the directories of tree t that are packages of the flat layout below the
\* root: a directory child of the root that is neither hidden nor a scope,
\* and a directory child of a scope directory
FlatSkipped == {".bin", ".cache", ".pnpm"}

FlatPackages(t) ==
    {n \in t :
        /\ isDirectory(n)
        /\ \/ /\ Len(n.path) = 1
              /\ n.path[1] \notin FlatSkipped
              /\ ~StartsWith(n.path[1], "@")
           \/ /\ Len(n.path) = 2
              /\ StartsWith(n.path[1], "@")
              /\ isDirectory(NodeAt(t, <<n.path[1]>>))}

\* C21: findPackageDirs yields exactly the directory children of the root
\* other than .bin, .cache and .pnpm, a child whose name starts with @ being
\* replaced by its directory children with relativePath <<scope, name>>; what
\* it yields is a directory, and never a scope directory itself.
C21_FlatEnumeration ==
    found.fn = "findPackageDirs" =>
        /\ ~found.threw
        /\ found.dirs =
                {[path |-> n.path, relativePath |-> n.path] : n \in FlatPackages(tree)}
        /\ \A d \in found.dirs :
                /\ existsSync(tree, d.path) /\ isDirectory(NodeAt(tree, d.path))
                /\ ~(Len(d.relativePath) = 1 /\ StartsWith(d.relativePath[1], "@"))
                /\ Len(d.relativePath) = 2 =>
                        /\ StartsWith(d.relativePath[1], "@")
                        /\ d.relativePath = <<d.relativePath[1], EntryName(NodeAt(tree, d.path))>>

\* a root with a plain package, a scope that holds a package and a file, a
\* hidden directory and an entry that is no directory has been enumerated
C21_Witness ==
    /\ found.fn = "findPackageDirs"
    /\ \E d \in found.dirs : Len(d.relativePath) = 2
    /\ \E d \in found.dirs : Len(d.relativePath) = 1
    /\ \E n \in readdir(tree, << >>) : isDirectory(n) /\ EntryName(n) \in FlatSkipped
    /\ \E n \in readdir(tree, << >>) : ~isDirectory(n)
    /\ \E n \in readdir(tree, <<"@s">>) : ~isDirectory(n)

\* the directories of tree t that are packages of the farm <root>/.pnpm when
\* the names in skipped are passed over inside an inner node_modules: below
\* a directory entry E of the farm that is not named node_modules and has no
\* leading dot, a directory child P of E/node_modules that is neither skipped
\* nor a scope, and a directory child of a scope directory there
FarmPackages(t, skipped) ==
    {n \in t :
        /\ isDirectory(n)
        /\ Len(n.path) \in {4, 5}
        /\ n.path[1] = ".pnpm"
        /\ n.path[2] # "node_modules" /\ ~StartsWith(n.path[2], ".")
        /\ n.path[3] = "node_modules"
        /\ \A i \in 1..(Len(n.path) - 1) : isDirectory(NodeAt(t, SubSeq(n.path, 1, i)))
        /\ \/ Len(n.path) = 4 /\ n.path[4] \notin skipped /\ ~StartsWith(n.path[4], "@")
           \/ Len(n.path) = 5 /\ StartsWith(n.path[4], "@")}

\* C22 as stated: findPnpmPackageDirs records, for every eligible entry E of
\* <root>/.pnpm that has an inner node_modules, the package directories
\* inside it that the flat layout's rule selects, with relativePath
\* <<".pnpm", E, "node_modules", P>> (scoped: one more name), and nothing
\* else.  The flat layout's rule is read either way: with its skipped names
\* (.bin, .cache, .pnpm), or as the choice between scope and plain alone.
C22_FarmEnumerationFlatRule ==
    (found.fn = "findPnpmPackageDirs" /\ ~found.threw) =>
        \/ found.dirs =
                {[path |-> n.path, relativePath |-> n.path]
                    : n \in FarmPackages(tree, FlatSkipped)}
        \/ found.dirs =
                {[path |-> n.path, relativePath |-> n.path] : n \in FarmPackages(tree, {})}

\* C22 amended: the same, where inside an inner node_modules only .bin is
\* passed over (a directory named .cache or .pnpm there is recorded as a
\* package); entries without an inner node_modules yield nothing; and the
\* enumeration throws exactly when <root>/.pnpm is no directory or the inner
\* node_modules of an eligible entry is no directory.
C22_FarmEnumeration ==
    found.fn = "findPnpmPackageDirs" =>
        /\ found.threw <=>
                \/ ~(existsSync(tree, <<".pnpm">>) /\ isDirectory(NodeAt(tree, <<".pnpm">>)))
                \/ \E n \in tree :
                        /\ Len(n.path) = 3 /\ ~isDirectory(n)
                        /\ n.path[1] = ".pnpm" /\ n.path[3] = "node_modules"
                        /\ n.path[2] # "node_modules" /\ ~StartsWith(n.path[2], ".")
        /\ ~found.threw =>
                /\ found.dirs =
                        {[path |-> n.path, relativePath |-> n.path]
                            : n \in FarmPackages(tree, {".bin"})}
                /\ \A d \in found.dirs :
                        /\ Len(d.relativePath) \in {4, 5}
                        /\ SubSeq(d.relativePath, 1, 3)
                                = <<".pnpm", d.relativePath[2], "node_modules">>
                        /\ existsSync(tree, <<".pnpm", d.relativePath[2], "node_modules">>)

\* a farm has been enumerated whose entry holds a plain package, a scoped
\* package, a .bin and a .cache directory and a regular file, beside an entry
\* that is skipped for its name
C22_Witness ==
    /\ found.fn = "findPnpmPackageDirs" /\ ~found.threw
    /\ \E d \in found.dirs : Len(d.relativePath) = 5
    /\ \E d \in found.dirs : d.relativePath = PnpmF
    /\ \E n \in readdir(tree, <<".pnpm", "f@1", "node_modules">>) : ~isDirectory(n)
    /\ \E n \in readdir(tree, <<".pnpm", "f@1", "node_modules">>) :
            isDirectory(n) /\ EntryName(n) \in FlatSkipped
    /\ \E n \in readdir(tree, <<".pnpm">>) :
            isDirectory(n) /\ EntryName(n) \in {"node_modules", ".x"}

\* the file rows of the snapshot whose content is c
RowsOfContent(c) == {f \in getAllFiles(disk.tables) : f.blobHash = hashBuffer(c)}

\* C23: at every point of an extraction every entry of the blob cache is
\* shorter than 100 KiB (102400 bytes), a blob of exactly 102400 bytes is not
\* in the cache, the cache holds one entry for a digest, and it has no more
\* entries than the file rows have distinct digests.
C23_CacheBound ==
    /\ \A c \in ux.blobCache : Length(c.content) < 100 * 1024
    /\ \A b \in disk.tables.blobs :
            (~gunzipThrows(b.content) /\ Length(decompress(b.content)) = 102400) =>
                \A c \in ux.blobCache : c.hash # b.hash
    /\ \A c1, c2 \in ux.blobCache : c1.hash = c2.hash => c1 = c2
    /\ Cardinality(ux.blobCache)
            <= Cardinality({f.blobHash : f \in getAllFiles(disk.tables)})

\* an extraction has written the file of 102400 bytes and a larger one, and
\* its cache holds the two smaller blobs, one of them of 102399 bytes
C23_Witness ==
    /\ pc = "extract"
    /\ RowsOfContent("big") \subseteq ux.written /\ RowsOfContent("big") # {}
    /\ RowsOfContent("huge") \cap ux.written # {}
    /\ {c.content : c \in ux.blobCache} = {"hello", "edge"}

\* C24: every file an extraction writes gets the bytes
\* decompress(getBlob(file.blobHash)), as an extraction without a cache
\* would write, in whatever order the rows are taken and whatever was cached
\* or not before.
C24_CacheTransparent ==
    [][pc = "extract" =>
            \A f \in ux'.written \ ux.written :
                LET fullPath == join(f.packagePath, f.relativePath)
                IN  /\ existsSync(out', fullPath)
                    /\ getBlob(disk.tables, f.blobHash) # Null
                    /\ NodeAt(out', fullPath).content
                            = decompress(Get(getBlob(disk.tables, f.blobHash)))]_vars

\* an extraction has written both files of a cached blob and both files of
\* a blob too large for the cache, after other blobs were cached
C24_Witness ==
    /\ pc = "extract"
    /\ RowsOfContent("hello") \subseteq ux.written
    /\ RowsOfContent("huge") \subseteq ux.written
    /\ Cardinality(RowsOfContent("hello")) = 2 /\ Cardinality(RowsOfContent("huge")) = 2
    /\ Cardinality(ux.blobCache) = 2

\* C25: when a command that opened a Store has returned or thrown, that
\* Store has been closed.
C25_StoreClosedOnExit ==
    (pc = "idle" /\ res.cmd \in {"pack", "unpack", "status"} /\ res.opened) =>
        store = "closed"

=============================================================================
